---- MODULE Spec2Model ----
(***************************************************************************)
(* Model of mexprp's evaluation core: the multi-valued Answer algebra      *)
(* (src/src/answer.rs) and the operator model Op (src/src/op.rs).          *)
(*                                                                         *)
(* Both are libraries of pure functions.  The state of the model is the    *)
(* last call made by the driver: which function, on which arguments, what  *)
(* it returned, and the sequence of invocations of the caller-supplied     *)
(* closure that the call performed.                                        *)
(***************************************************************************)
EXTENDS Integers, Sequences, FiniteSets, TLC

VARIABLES fn, args, ret, invoked

vars == <<fn, args, ret, invoked>>

(***************************************************************************)
(* Bounds and inputs                                                       *)
(***************************************************************************)
\* longest Vec<N> a caller hands in inside a Multiple
MaxLen == 3
\* chaining: longest Vec<N> of a result that is passed on to a further call,
\* and longest Vec<N> of the fresh operand it is combined with
MaxChainLen == 4
MaxOperandLen == 2
\* the numbers used while chaining
ChainNums == {2, 5}
\* the numbers callers put into answers
Nums == {2, 3, 5}

\* all sequences over S of length lo..hi
SeqsOf(S, lo, hi) == UNION {[1..k -> S] : k \in lo..hi}

(***************************************************************************)
(* enum Answer<N> and Calculation<N> = Result<Answer<N>, MathError>        *)
(***************************************************************************)
Single(n) == [variant |-> "Single", n |-> n]
Multiple(ns) == [variant |-> "Multiple", ns |-> ns]

Ok(answer) == [kind |-> "Ok", answer |-> answer]
Err(e) == [kind |-> "Err", err |-> e]

\* Answers a caller may pass: the type does not enforce "at least two", so
\* Multiple(vec![]) and Multiple(vec![x]) are constructible.
Answers == {Single(n) : n \in Nums} \cup {Multiple(ns) : ns \in SeqsOf(Nums, 0, MaxLen)}

(***************************************************************************)
(* The closures handed to op (F: Fn(&N, &N) -> Calculation<N>) and to unop *)
(* (F: Fn(&N) -> Calculation<N>).  They are inputs; each is an arbitrary   *)
(* pure function, named here by a string and applied by Apply/Apply1.      *)
(* Errors carry the operands so that different pairings fail differently.  *)
(***************************************************************************)
Opers == {"mul", "plusminus", "sub_nonneg", "degenerate", "mixed", "first", "swap_pair"}

Apply(oper, a, b) ==
  CASE oper = "mul" -> Ok(Single(a * b))
    [] oper = "plusminus" -> Ok(Multiple(<<a + b, a - b>>))
    [] oper = "sub_nonneg" ->
         IF a < b THEN Err([code |-> "negative", a |-> a, b |-> b])
                  ELSE Ok(Single(a - b))
    [] oper = "degenerate" ->
         IF a = b THEN Ok(Multiple(<<>>))
         ELSE IF a < b THEN Ok(Multiple(<<b>>))
         ELSE Ok(Single(a))
    [] oper = "mixed" ->
         IF a = 5 THEN Err([code |-> "five", a |-> a, b |-> b])
         ELSE IF b = 2 THEN Ok(Multiple(<<a, b, a>>))
         ELSE Ok(Single(b))
    [] oper = "first" -> Ok(Single(a))
    [] oper = "swap_pair" -> Ok(Multiple(<<b, a>>))

UnOpers == {"neg", "sqrt", "odd_fails", "degenerate1", "abs"}

Apply1(oper, a) ==
  CASE oper = "neg" -> Ok(Single(0 - a))
    [] oper = "sqrt" -> Ok(Multiple(<<a, 0 - a>>))
    [] oper = "odd_fails" ->
         IF a % 2 = 1 THEN Err([code |-> "odd", a |-> a, b |-> 0])
                      ELSE Ok(Multiple(<<a, a, a>>))
    [] oper = "degenerate1" ->
         IF a = 2 THEN Ok(Multiple(<<>>))
         ELSE IF a = 3 THEN Ok(Multiple(<<a>>))
         ELSE Ok(Single(a))
    [] oper = "abs" -> IF a < 0 THEN Ok(Single(0 - a)) ELSE Ok(Single(a))

(***************************************************************************)
(* Answer::to_vec                                                          *)
(***************************************************************************)
to_vec(self) ==
  IF self.variant = "Single" THEN <<self.n>> ELSE self.ns

(***************************************************************************)
(* push_answers, the helper nested in op and in unop                       *)
(***************************************************************************)
RECURSIVE push_each(_, _, _)
\* `for n in ns { list.push(n) }`
push_each(ns, i, list) ==
  IF i > Len(ns) THEN list ELSE push_each(ns, i + 1, Append(list, ns[i]))

\* mutant: a Multiple outcome contributes only its first value
push_answers_first_only(answer, list) ==
  IF answer.variant = "Single" THEN Append(list, answer.n)
  ELSE IF Len(answer.ns) = 0 THEN list
  ELSE Append(list, answer.ns[1])

push_answers(answer, list) ==
  IF answer.variant = "Single" THEN Append(list, answer.n)
  ELSE push_each(answer.ns, 1, list)

(***************************************************************************)
(* Answer::op.  A loop carries st = [answers, invoked, res]: the Vec being *)
(* filled, the closure invocations made so far, and res = Err(e) once `?`  *)
(* has returned early (after which nothing more of the body runs).         *)
(***************************************************************************)
Running == [kind |-> "Running"]
Start == [answers |-> <<>>, invoked |-> <<>>, res |-> Running]

\* mutant: no early return; the loop goes on and the last error wins
op_step_continue(n, n2, oper, st) ==
  LET r == Apply(oper, n, n2) IN
  IF r.kind = "Err"
  THEN [st EXCEPT !.invoked = Append(@, <<n, n2>>), !.res = r]
  ELSE [st EXCEPT !.invoked = Append(@, <<n, n2>>),
                  !.answers = push_answers(r.answer, @)]

\* `push_answers(oper(n, n2)?, &mut answers);`
op_step(n, n2, oper, st) ==
  IF st.res.kind = "Err" THEN st
  ELSE LET r == Apply(oper, n, n2) IN
       IF r.kind = "Err"
       THEN [st EXCEPT !.invoked = Append(@, <<n, n2>>), !.res = r]
       ELSE [st EXCEPT !.invoked = Append(@, <<n, n2>>),
                       !.answers = push_answers(r.answer, @)]

RECURSIVE for_n2s(_, _, _, _, _)
\* `for n2 in n2s { ... }` with n fixed
for_n2s(n, n2s, j, oper, st) ==
  IF j > Len(n2s) THEN st
  ELSE for_n2s(n, n2s, j + 1, oper, op_step(n, n2s[j], oper, st))

RECURSIVE for_ns(_, _, _, _, _)
\* `for n in ns { ... }` with n2 fixed
for_ns(ns, i, n2, oper, st) ==
  IF i > Len(ns) THEN st
  ELSE for_ns(ns, i + 1, n2, oper, op_step(ns[i], n2, oper, st))

RECURSIVE for_ns_n2s(_, _, _, _, _)
\* `for n in ns { for n2 in n2s { ... } }`
for_ns_n2s(ns, i, n2s, oper, st) ==
  IF i > Len(ns) THEN st
  ELSE for_ns_n2s(ns, i + 1, n2s, oper, for_n2s(ns[i], n2s, 1, oper, st))

\* mutant: a Vec of exactly one value is handed back as a Single
ok_multiple_collapse(st) ==
  [ret |-> IF st.res.kind = "Err" THEN st.res
           ELSE IF Len(st.answers) = 1 THEN Ok(Single(st.answers[1]))
           ELSE Ok(Multiple(st.answers)),
   invoked |-> st.invoked]

\* `Ok(Answer::Multiple(answers))`, unless `?` already returned the error
ok_multiple(st) ==
  [ret |-> IF st.res.kind = "Err" THEN st.res ELSE Ok(Multiple(st.answers)),
   invoked |-> st.invoked]

\* mutant: the Single, Single arm collects into a Vec like the other arms
op_single_single_collect(n, n2, oper) ==
  ok_multiple(op_step(n, n2, oper, Start))

\* Single, Single: `oper(n, n2)`
op_single_single(n, n2, oper) ==
  [ret |-> Apply(oper, n, n2), invoked |-> <<<<n, n2>>>>]

\* Single, Multiple
op_single_multiple(n, n2s, oper) ==
  ok_multiple(for_n2s(n, n2s, 1, oper, Start))

\* Multiple, Single
op_multiple_single(ns, n2, oper) ==
  ok_multiple(for_ns(ns, 1, n2, oper, Start))

\* Multiple, Multiple
op_multiple_multiple(ns, n2s, oper) ==
  ok_multiple(for_ns_n2s(ns, 1, n2s, oper, Start))

op(self, other, oper) ==
  IF self.variant = "Single"
  THEN IF other.variant = "Single"
       THEN op_single_single(self.n, other.n, oper)
       ELSE op_single_multiple(self.n, other.ns, oper)
  ELSE IF other.variant = "Single"
       THEN op_multiple_single(self.ns, other.n, oper)
       ELSE op_multiple_multiple(self.ns, other.ns, oper)

(***************************************************************************)
(* Answer::unop                                                            *)
(***************************************************************************)
\* mutant: no early return; the loop goes on and the last error wins
unop_step_continue(n, oper, st) ==
  LET r == Apply1(oper, n) IN
  IF r.kind = "Err"
  THEN [st EXCEPT !.invoked = Append(@, <<n>>), !.res = r]
  ELSE [st EXCEPT !.invoked = Append(@, <<n>>),
                  !.answers = push_answers(r.answer, @)]

\* `push_answers(oper(n)?, &mut answers);`
unop_step(n, oper, st) ==
  IF st.res.kind = "Err" THEN st
  ELSE LET r == Apply1(oper, n) IN
       IF r.kind = "Err"
       THEN [st EXCEPT !.invoked = Append(@, <<n>>), !.res = r]
       ELSE [st EXCEPT !.invoked = Append(@, <<n>>),
                       !.answers = push_answers(r.answer, @)]

RECURSIVE unop_for_ns(_, _, _, _)
\* `for n in ns { ... }`
unop_for_ns(ns, i, oper, st) ==
  IF i > Len(ns) THEN st
  ELSE unop_for_ns(ns, i + 1, oper, unop_step(ns[i], oper, st))

\* mutant: the Single arm collects into a Vec like the Multiple arm
unop_single_collect(n, oper) ==
  ok_multiple(unop_step(n, oper, Start))

\* Single: `oper(n)`
unop_single(n, oper) ==
  [ret |-> Apply1(oper, n), invoked |-> <<<<n>>>>]

\* Multiple
unop_multiple(ns, oper) ==
  ok_multiple(unop_for_ns(ns, 1, oper, Start))

unop(self, oper) ==
  IF self.variant = "Single"
  THEN unop_single(self.n, oper)
  ELSE unop_multiple(self.ns, oper)

(***************************************************************************)
(* Answer::unwrap_single: the value, or a panic                            *)
(***************************************************************************)
Value(n) == [kind |-> "Value", n |-> n]
Panic(msg) == [kind |-> "Panic", msg |-> msg]

\* mutant: a Multiple of exactly one value is unwrapped
unwrap_single_lenient(self) ==
  IF self.variant = "Single" THEN Value(self.n)
  ELSE IF Len(self.ns) = 1 THEN Value(self.ns[1])
  ELSE Panic("Attempted to unwrap multiple answers as one")

unwrap_single(self) ==
  IF self.variant = "Single"
  THEN Value(self.n)
  ELSE Panic("Attempted to unwrap multiple answers as one")

(***************************************************************************)
(* Answer::join                                                            *)
(***************************************************************************)
\* one `match` of join: push the Single's value, or append the Multiple's
join_part(answer, new) ==
  IF answer.variant = "Single" THEN Append(new, answer.n)
  ELSE new \o answer.ns

\* mutant: the two matches in the other order
join_other_first(self, other) ==
  Multiple(join_part(self, join_part(other, <<>>)))

join(self, other) ==
  Multiple(join_part(other, join_part(self, <<>>)))

(***************************************************************************)
(* enum Op { In(In), Pre(Pre), Post(Post) }                                *)
(***************************************************************************)
In(o) == [class |-> "In", op |-> o]
Pre(o) == [class |-> "Pre", op |-> o]
Post(o) == [class |-> "Post", op |-> o]

InOps == {"Pow", "Mul", "Div", "Add", "Sub", "PlusMinus"}
PreOps == {"Neg", "Pos", "PosNeg"}
PostOps == {"Fact", "Percent"}

Ops == {In(o) : o \in InOps} \cup {Pre(o) : o \in PreOps} \cup {Post(o) : o \in PostOps}

precedence(self) ==
  CASE self.class = "In" ->
         (CASE self.op = "Pow" -> 4
            [] self.op \in {"Mul", "Div"} -> 3
            [] self.op \in {"Add", "Sub", "PlusMinus"} -> 2)
    [] self.class = "Pre" ->
         (CASE self.op \in {"Neg", "Pos", "PosNeg"} -> 4)
    [] self.class = "Post" ->
         (CASE self.op = "Fact" -> 4
            [] self.op = "Percent" -> 4)

\* mutant: every infix operator left-associative
is_left_associative_all_infix(self) ==
  CASE self.class = "In" -> TRUE
    [] self.class = "Pre" -> FALSE
    [] self.class = "Post" -> TRUE

is_left_associative(self) ==
  CASE self.class = "In" ->
         (CASE self.op = "Pow" -> FALSE
            [] self.op \in {"Mul", "Div", "Add", "Sub", "PlusMinus"} -> TRUE)
    [] self.class = "Pre" ->
         (CASE self.op \in {"Neg", "Pos", "PosNeg"} -> FALSE)
    [] self.class = "Post" ->
         (CASE self.op = "Fact" -> TRUE
            [] self.op = "Percent" -> TRUE)

\* mutant: >= for >
should_shunt_ge(self, other) ==
  IF (precedence(other) >= precedence(self))
       \/ (precedence(other) = precedence(self) /\ is_left_associative(other))
  THEN TRUE
  ELSE FALSE

should_shunt(self, other) ==
  IF (precedence(other) > precedence(self))
       \/ (precedence(other) = precedence(self) /\ is_left_associative(other))
  THEN TRUE
  ELSE FALSE

(***************************************************************************)
(* State machine.  The driver holds the arguments of one call (fn, args);  *)
(* the call then runs to completion and leaves its return value in ret and *)
(* the closure invocations it made in invoked.                             *)
(***************************************************************************)
NoRet == [kind |-> "None"]
Answer(a) == [kind |-> "Answer", answer |-> a]
Bool(b) == [kind |-> "Bool", b |-> b]
Int32(i) == [kind |-> "Int", i |-> i]

OpArgs == [self : Answers, other : Answers, oper : Opers]
UnopArgs == [self : Answers, oper : UnOpers]
UnwrapArgs == [self : Answers]
JoinArgs == [self : Answers, other : Answers]
OneOpArgs == [self : Ops]
ShuntArgs == [self : Ops, other : Ops]

Init ==
  /\ ret = NoRet
  /\ invoked = <<>>
  /\ \/ fn = "op" /\ args \in OpArgs
     \/ fn = "unop" /\ args \in UnopArgs
     \/ fn = "unwrap_single" /\ args \in UnwrapArgs
     \/ fn = "join" /\ args \in JoinArgs
     \/ fn = "precedence" /\ args \in OneOpArgs
     \/ fn = "is_left_associative" /\ args \in OneOpArgs
     \/ fn = "should_shunt" /\ args \in ShuntArgs

CallOp ==
  /\ fn = "op"
  /\ ret = NoRet
  /\ LET r == op(args.self, args.other, args.oper) IN
       /\ ret' = r.ret
       /\ invoked' = r.invoked
  /\ UNCHANGED <<fn, args>>

CallUnop ==
  /\ fn = "unop"
  /\ ret = NoRet
  /\ LET r == unop(args.self, args.oper) IN
       /\ ret' = r.ret
       /\ invoked' = r.invoked
  /\ UNCHANGED <<fn, args>>

CallUnwrapSingle ==
  /\ fn = "unwrap_single"
  /\ ret = NoRet
  /\ ret' = unwrap_single(args.self)
  /\ UNCHANGED <<fn, args, invoked>>

CallJoin ==
  /\ fn = "join"
  /\ ret = NoRet
  /\ ret' = Answer(join(args.self, args.other))
  /\ UNCHANGED <<fn, args, invoked>>

CallPrecedence ==
  /\ fn = "precedence"
  /\ ret = NoRet
  /\ ret' = Int32(precedence(args.self))
  /\ UNCHANGED <<fn, args, invoked>>

CallIsLeftAssociative ==
  /\ fn = "is_left_associative"
  /\ ret = NoRet
  /\ ret' = Bool(is_left_associative(args.self))
  /\ UNCHANGED <<fn, args, invoked>>

CallShouldShunt ==
  /\ fn = "should_shunt"
  /\ ret = NoRet
  /\ ret' = Bool(should_shunt(args.self, args.other))
  /\ UNCHANGED <<fn, args, invoked>>

Next ==
  \/ CallOp
  \/ CallUnop
  \/ CallUnwrapSingle
  \/ CallJoin
  \/ CallPrecedence
  \/ CallIsLeftAssociative
  \/ CallShouldShunt

Spec == Init /\ [][Next]_vars

(***************************************************************************)
(* Chaining.  "Multiple answers. Will always be at least two (probably)":  *)
(* the driver starts from well-formed answers, uses closures whose         *)
(* successful outcomes are well-formed, and passes every answer it gets    *)
(* back on to a further op, unop or join.                                  *)
(***************************************************************************)
WellFormed(a) == a.variant = "Single" \/ Len(a.ns) >= 2

WellFormedOutcome(r) ==
  r.kind = "Ok" => /\ WellFormed(r.answer)
                   /\ \A k \in 1..Len(to_vec(r.answer)) : to_vec(r.answer)[k] \in ChainNums

ChainOperands ==
  {Single(n) : n \in ChainNums}
    \cup {Multiple(ns) : ns \in SeqsOf(ChainNums, 2, MaxOperandLen)}

ChainOpers ==
  {oper \in Opers : \A a, b \in ChainNums : WellFormedOutcome(Apply(oper, a, b))}

ChainUnOpers ==
  {oper \in UnOpers : \A a \in ChainNums : WellFormedOutcome(Apply1(oper, a))}

ChainOpArgs(a) ==
  [self : {a}, other : ChainOperands, oper : ChainOpers]
    \cup [self : ChainOperands, other : {a}, oper : ChainOpers]
ChainUnopArgs(a) == [self : {a}, oper : ChainUnOpers]
ChainJoinArgs(a) ==
  [self : {a}, other : ChainOperands] \cup [self : ChainOperands, other : {a}]

InitWF ==
  /\ ret = NoRet
  /\ invoked = <<>>
  /\ \E a \in ChainOperands :
       \/ fn = "op" /\ args \in ChainOpArgs(a)
       \/ fn = "unop" /\ args \in ChainUnopArgs(a)
       \/ fn = "join" /\ args \in ChainJoinArgs(a)

\* the answer a finished call handed back, if it handed one back
Returned == ret.kind \in {"Ok", "Answer"} /\ Len(to_vec(ret.answer)) <= MaxChainLen

FeedOp ==
  /\ Returned
  /\ fn' = "op"
  /\ args' \in ChainOpArgs(ret.answer)
  /\ ret' = NoRet
  /\ invoked' = <<>>

FeedUnop ==
  /\ Returned
  /\ fn' = "unop"
  /\ args' \in ChainUnopArgs(ret.answer)
  /\ ret' = NoRet
  /\ invoked' = <<>>

FeedJoin ==
  /\ Returned
  /\ fn' = "join"
  /\ args' \in ChainJoinArgs(ret.answer)
  /\ ret' = NoRet
  /\ invoked' = <<>>

NextWF ==
  \/ CallOp
  \/ CallUnop
  \/ CallJoin
  \/ FeedOp
  \/ FeedUnop
  \/ FeedJoin

SpecWF == InitWF /\ [][NextWF]_vars

(***************************************************************************)
(* Properties                                                              *)
(***************************************************************************)
Done == ret # NoRet

\* the pairings of A and B in row-major order: pairing k is
\* (a_i, b_j) with k = i * n + j (0-based i, j)
Pairings(A, B) ==
  LET a == to_vec(A)
      b == to_vec(B)
      n == Len(b)
  IN [k \in 1..(Len(a) * n) |-> <<a[((k - 1) \div n) + 1], b[((k - 1) % n) + 1]>>]

Outcome(oper, p) == Apply(oper, p[1], p[2])

Failing(oper, ps) == {k \in 1..Len(ps) : Outcome(oper, ps[k]).kind = "Err"}

FirstOf(S) == CHOOSE k \in S : \A l \in S : k <= l

RECURSIVE ValuesOf(_, _, _)
\* the values of oper(ps[1]), ..., oper(ps[k]), each in its own order
ValuesOf(oper, ps, k) ==
  IF k = 0 THEN <<>>
  ELSE ValuesOf(oper, ps, k - 1) \o to_vec(Outcome(oper, ps[k]).answer)

OpPairings == Pairings(args.self, args.other)

\* C1: when oper fails on no pairing, op succeeds and the values of its
\* result are the concatenation, A-outer and B-inner, of the values of
\* oper(a_i, b_j); with one value per pairing that is m*n values; and
\* Multiple([5,3]) op Single(2) under multiplication is Multiple([10,6]).
C1_CrossProduct ==
  (fn = "op" /\ Done) =>
    /\ Failing(args.oper, OpPairings) = {} =>
         /\ ret.kind = "Ok"
         /\ to_vec(ret.answer) = ValuesOf(args.oper, OpPairings, Len(OpPairings))
         /\ (\A k \in 1..Len(OpPairings) :
               Len(to_vec(Outcome(args.oper, OpPairings[k]).answer)) = 1)
              => Len(to_vec(ret.answer))
                   = Len(to_vec(args.self)) * Len(to_vec(args.other))
    /\ (args.self = Multiple(<<5, 3>>) /\ args.other = Single(2) /\ args.oper = "mul")
         => ret = Ok(Multiple(<<10, 6>>))

C1_Witness ==
  /\ fn = "op"
  /\ args = [self |-> Multiple(<<5, 3>>), other |-> Multiple(<<2, 3>>), oper |-> "plusminus"]
  /\ ret = Ok(Multiple(<<7, 3, 8, 2, 5, 1, 6, 0>>))

\* C2: when oper fails on some pairing, op returns exactly the error of the
\* first failing pairing in row-major order, returns no Answer, and has
\* invoked oper on the pairings up to that one and on no later pairing.
C2_FirstFailure ==
  (fn = "op" /\ Done /\ Failing(args.oper, OpPairings) # {}) =>
    LET k0 == FirstOf(Failing(args.oper, OpPairings)) IN
    /\ ret.kind = "Err"
    /\ ret = Outcome(args.oper, OpPairings[k0])
    /\ invoked = SubSeq(OpPairings, 1, k0)

C2_Witness ==
  /\ fn = "op"
  /\ args.self.variant = "Multiple"
  /\ args.other.variant = "Multiple"
  /\ ret.kind = "Err"
  /\ Len(invoked) > 1
  /\ \E k \in Failing(args.oper, OpPairings) :
       /\ k > Len(invoked)
       /\ Outcome(args.oper, OpPairings[k]) # ret

BothSingle == args.self.variant = "Single" /\ args.other.variant = "Single"

\* C3 as stated: when oper succeeds on all pairings, Single op Single is
\* always a Single and every other combination is a Multiple.
C3_Original ==
  (fn = "op" /\ Done /\ Failing(args.oper, OpPairings) = {}) =>
    /\ BothSingle => ret.answer.variant = "Single"
    /\ ~BothSingle => ret.answer.variant = "Multiple"

\* C3 amended: when oper succeeds on all pairings, Single op Single is
\* exactly the Answer oper returned for the one pairing (a Single when oper
\* returned a Single, a Multiple when it returned a Multiple), and every
\* other combination of variants is a Multiple.
C3_Shape ==
  (fn = "op" /\ Done /\ Failing(args.oper, OpPairings) = {}) =>
    /\ BothSingle => ret = Apply(args.oper, args.self.n, args.other.n)
    /\ ~BothSingle => ret.kind = "Ok" /\ ret.answer.variant = "Multiple"

C3_Witness ==
  /\ fn = "op"
  /\ BothSingle
  /\ ret.kind = "Ok"
  /\ ret.answer.variant = "Multiple"
  /\ Len(ret.answer.ns) = 2

\* C4 as stated: whenever op succeeds, its result is a Single if and only
\* if exactly one value resulted in total.
C4_Original ==
  (fn = "op" /\ Done /\ ret.kind = "Ok") =>
    (ret.answer.variant = "Single" <=> Len(to_vec(ret.answer)) = 1)

\* C4 amended: whenever op succeeds, its result is a Single if and only if
\* A and B are both Single and oper returned a Single for their pairing; in
\* every other case it is a Multiple, also when exactly one value (or none)
\* resulted in total.
C4_SingleIff ==
  (fn = "op" /\ Done /\ ret.kind = "Ok") =>
    (ret.answer.variant = "Single"
       <=> (BothSingle
              /\ Apply(args.oper, args.self.n, args.other.n).answer.variant = "Single"))

C4_Witness ==
  /\ fn = "op"
  /\ args.self.variant = "Multiple"
  /\ Len(args.self.ns) = 1
  /\ ret.kind = "Ok"
  /\ ret.answer.variant = "Multiple"
  /\ Len(ret.answer.ns) = 1

\* C5: self.should_shunt(other) is true exactly when other's precedence is
\* higher, or equal with other left-associative, over all 11 operators;
\* Add.should_shunt(Mul), not Pow.should_shunt(Pow), Mul.should_shunt(Mul).
C5_ShouldShunt ==
  /\ Cardinality(Ops) = 11
  /\ (fn = "should_shunt" /\ Done) =>
       /\ ret.kind = "Bool"
       /\ ret.b <=> (\/ precedence(args.other) > precedence(args.self)
                     \/ /\ precedence(args.other) = precedence(args.self)
                        /\ is_left_associative(args.other))
       /\ (args.self = In("Add") /\ args.other = In("Mul")) => ret.b
       /\ (args.self = In("Pow") /\ args.other = In("Pow")) => ~ret.b
       /\ (args.self = In("Mul") /\ args.other = In("Mul")) => ret.b

C5_Witness ==
  /\ fn = "should_shunt"
  /\ args.self = In("Pow")
  /\ args.other = In("Pow")
  /\ ret = Bool(FALSE)

\* C6: unwrap_single returns the contained value of a Single; on every
\* Multiple, whatever its length, it panics and returns no value.
C6_UnwrapSingle ==
  (fn = "unwrap_single" /\ Done) =>
    /\ args.self.variant = "Single" => ret = Value(args.self.n)
    /\ args.self.variant = "Multiple" => ret.kind = "Panic"

C6_Witness ==
  /\ fn = "unwrap_single"
  /\ args.self.variant = "Multiple"
  /\ Len(args.self.ns) = 1
  /\ ret.kind = "Panic"

\* C7: A.join(B) is the Multiple of A's values in stored order followed by
\* B's values in stored order, nothing removed, deduplicated or reordered,
\* and no combining function is invoked.
C7_Join ==
  (fn = "join" /\ Done) =>
    /\ ret = Answer(Multiple(to_vec(args.self) \o to_vec(args.other)))
    /\ invoked = <<>>
    /\ (args.self.variant = "Single" /\ args.other.variant = "Single")
         => ret.answer = Multiple(<<args.self.n, args.other.n>>)

C7_Witness ==
  /\ fn = "join"
  /\ args.self = Multiple(<<3, 2>>)
  /\ args.other = Single(3)
  /\ ret = Answer(Multiple(<<3, 2, 3>>))

UnopInputs == [k \in 1..Len(to_vec(args.self)) |-> <<to_vec(args.self)[k]>>]

Outcome1(oper, p) == Apply1(oper, p[1])

Failing1(oper, ps) == {k \in 1..Len(ps) : Outcome1(oper, ps[k]).kind = "Err"}

RECURSIVE ValuesOf1(_, _, _)
ValuesOf1(oper, ps, k) ==
  IF k = 0 THEN <<>>
  ELSE ValuesOf1(oper, ps, k - 1) \o to_vec(Outcome1(oper, ps[k]).answer)

\* C8: unop invokes oper on the values in stored order; if oper fails on a
\* value, unop returns the error of the first failing value, no Answer, and
\* invokes oper on no later value; otherwise the values of the result are
\* the concatenation in stored order of the values of oper(a_0), ...
C8_Unop ==
  (fn = "unop" /\ Done) =>
    IF Failing1(args.oper, UnopInputs) # {}
    THEN LET k0 == FirstOf(Failing1(args.oper, UnopInputs)) IN
         /\ ret.kind = "Err"
         /\ ret = Outcome1(args.oper, UnopInputs[k0])
         /\ invoked = SubSeq(UnopInputs, 1, k0)
    ELSE /\ ret.kind = "Ok"
         /\ to_vec(ret.answer) = ValuesOf1(args.oper, UnopInputs, Len(UnopInputs))
         /\ invoked = UnopInputs

C8_Witness ==
  /\ fn = "unop"
  /\ args = [self |-> Multiple(<<2, 3, 5>>), oper |-> "odd_fails"]
  /\ ret = Err([code |-> "odd", a |-> 3, b |-> 0])
  /\ invoked = <<<<2>>, <<3>>>>

\* C9: is_left_associative is false for infix Pow and for the prefix
\* operators Neg, Pos, PosNeg, true for Mul, Div, Add, Sub, PlusMinus, Fact
\* and Percent, and defined for all 11 operator variants.
C9_Associativity ==
  /\ Cardinality(Ops) = 11
  /\ (fn = "is_left_associative" /\ Done) =>
       /\ ret.kind = "Bool"
       /\ ret.b \in BOOLEAN
       /\ args.self \in {In("Pow"), Pre("Neg"), Pre("Pos"), Pre("PosNeg")} => ~ret.b
       /\ args.self \in {In("Mul"), In("Div"), In("Add"), In("Sub"), In("PlusMinus"),
                         Post("Fact"), Post("Percent")} => ret.b

C9_Witness ==
  /\ fn = "is_left_associative"
  /\ args.self = In("Pow")
  /\ ret = Bool(FALSE)

\* C10: starting from well-formed Answers and using only closures whose
\* successful outcomes are well-formed, every Answer produced by any
\* sequence of successful op, unop and join calls is a Single or a Multiple
\* with at least two values.
C10_WellFormed ==
  /\ WellFormed(args.self)
  /\ fn \in {"op", "join"} => WellFormed(args.other)
  /\ ret.kind \in {"Ok", "Answer"} => WellFormed(ret.answer)

C10_Witness ==
  /\ fn = "unop"
  /\ args.self.variant = "Multiple"
  /\ Len(args.self.ns) > MaxOperandLen
  /\ ret.kind = "Ok"
  /\ ret.answer.variant = "Multiple"
====
